---- MODULE Spec2Model ----
(***************************************************************************)
(* Model of the element abstraction, addressing and action-resolution      *)
(* engine of mcp-osx-py:                                                   *)
(*   serializewindowstructure.py  simplify_role, get_accessibility_name,   *)
(*                                get_window_structure_abstract            *)
(*   elementfinder.py             find_element_by_id,                      *)
(*                                perform_element_action                   *)
(*                                                                         *)
(* Python strings that the code formats, parses, lower-cases or searches   *)
(* are sequences of one-character strings, so that str(), int(), split(),  *)
(* strip(), lower() and the substring tests are computed, not assumed.     *)
(***************************************************************************)
EXTENDS Integers, Sequences, FiniteSets, TLC

(* ------------------------------------------------------------------ *)
(* Bounds of the model                                                 *)
(* ------------------------------------------------------------------ *)

\* Number of element handles of a window in the shallow specifications.
MaxNodes == 3

\* In one perform_element_action run, at most this many action invocations
\* raise a plain error before one behaves differently.
MaxErrs == 1

\* How many levels below the depth bound the deep windows reach.
DeepSlack == 2

(* ------------------------------------------------------------------ *)
(* Python string operations                                            *)
(* ------------------------------------------------------------------ *)

UpperChars == <<"A","B","C","D","E","F","G","H","I","J","K","L","M",
                "N","O","P","Q","R","S","T","U","V","W","X","Y","Z">>

LowerChars == <<"a","b","c","d","e","f","g","h","i","j","k","l","m",
                "n","o","p","q","r","s","t","u","v","w","x","y","z">>

DigitChars == <<"0","1","2","3","4","5","6","7","8","9">>

IsUpper(c) == \E i \in 1..26 : UpperChars[i] = c

IsLetter(c) == \E i \in 1..26 : UpperChars[i] = c \/ LowerChars[i] = c

IsDigit(c) == \E i \in 1..10 : DigitChars[i] = c

DigitVal(c) == (CHOOSE i \in 1..10 : DigitChars[i] = c) - 1

IsSpace(c) == c \in {" ", "\t", "\n"}

\* str.lower() on one character
LowerChar(c) ==
    IF IsUpper(c) THEN LowerChars[CHOOSE i \in 1..26 : UpperChars[i] = c] ELSE c

\* str.lower()
Lower(s) == [i \in 1..Len(s) |-> LowerChar(s[i])]

\* sub in s
Contains(s, sub) ==
    \E i \in 0..(Len(s) - Len(sub)) : SubSeq(s, i + 1, i + Len(sub)) = sub

\* s.startswith(p)
StartsWith(s, p) == Len(p) <= Len(s) /\ SubSeq(s, 1, Len(p)) = p

\* c in s, for one character c
HasChar(s, c) == \E i \in 1..Len(s) : s[i] = c

RECURSIVE LStripSet(_, _)
LStripSet(s, cs) ==
    IF s # <<>> /\ Head(s) \in cs THEN LStripSet(Tail(s), cs) ELSE s

RECURSIVE RStripSet(_, _)
RStripSet(s, cs) ==
    IF s # <<>> /\ s[Len(s)] \in cs THEN RStripSet(SubSeq(s, 1, Len(s) - 1), cs) ELSE s

\* s.strip()
Strip(s) == RStripSet(LStripSet(s, {" ", "\t", "\n"}), {" ", "\t", "\n"})

\* s.strip("/")
StripSlash(s) == RStripSet(LStripSet(s, {"/"}), {"/"})

\* s.split("/"): the pieces between the separators, empty pieces included
RECURSIVE SplitSlash(_)
SplitSlash(s) ==
    IF \A i \in 1..Len(s) : s[i] # "/" THEN <<s>>
    ELSE LET k == CHOOSE i \in 1..Len(s) : s[i] = "/" /\ \A j \in 1..(i - 1) : s[j] # "/"
         IN <<SubSeq(s, 1, k - 1)>> \o SplitSlash(SubSeq(s, k + 1, Len(s)))

\* str(n) for an integer n
RECURSIVE NatToStr(_)
NatToStr(n) ==
    IF n < 10 THEN <<DigitChars[n + 1]>>
    ELSE NatToStr(n \div 10) \o <<DigitChars[(n % 10) + 1]>>

IntToStr(n) == IF n < 0 THEN <<"-">> \o NatToStr(0 - n) ELSE NatToStr(n)

RECURSIVE DigitsVal(_)
DigitsVal(s) ==
    IF s = <<>> THEN 0
    ELSE 10 * DigitsVal(SubSeq(s, 1, Len(s) - 1)) + DigitVal(s[Len(s)])

\* int(x): surrounding whitespace and one sign are accepted, then digits only;
\* anything else raises ValueError (ok = FALSE).
ParseInt(x) ==
    LET t == Strip(x)
        signed == t # <<>> /\ Head(t) \in {"-", "+"}
        digits == IF signed THEN Tail(t) ELSE t
    IN IF digits # <<>> /\ \A i \in 1..Len(digits) : IsDigit(digits[i])
       THEN [ok |-> TRUE,
             val |-> IF signed /\ Head(t) = "-" THEN 0 - DigitsVal(digits)
                     ELSE DigitsVal(digits)]
       ELSE [ok |-> FALSE, val |-> 0]

\* "/".join(parts)
RECURSIVE JoinSlash(_)
JoinSlash(parts) ==
    IF parts = <<>> THEN <<>>
    ELSE IF Len(parts) = 1 THEN parts[1]
    ELSE JoinSlash(SubSeq(parts, 1, Len(parts) \div 2)) \o <<"/">>
         \o JoinSlash(SubSeq(parts, Len(parts) \div 2 + 1, Len(parts)))

\* str.isidentifier() over the ASCII alphabet of the model
IsIdentifier(s) ==
    /\ s # <<>>
    /\ IsLetter(s[1]) \/ s[1] = "_"
    /\ \A i \in 1..Len(s) : IsLetter(s[i]) \/ IsDigit(s[i]) \/ s[i] = "_"

\* Python's None where a string is expected (no character is longer than one)
NoneStr == <<"None">>

\* Python's None where an element handle is expected
NoElem == 0

\* serialize()'s None result for a branch beyond the depth bound
NoneNode == [absent |-> TRUE]

(* ------------------------------------------------------------------ *)
(* String literals                                                      *)
(* ------------------------------------------------------------------ *)

\* native roles (AXRole values)
AXRoles ==
    [Window |-> <<"A","X","W","i","n","d","o","w">>,
     Group |-> <<"A","X","G","r","o","u","p">>,
     Button |-> <<"A","X","B","u","t","t","o","n">>,
     StaticText |-> <<"A","X","S","t","a","t","i","c","T","e","x","t">>,
     TextField |-> <<"A","X","T","e","x","t","F","i","e","l","d">>,
     Image |-> <<"A","X","I","m","a","g","e">>,
     TextArea |-> <<"A","X","T","e","x","t","A","r","e","a">>,
     SearchField |-> <<"A","X","S","e","a","r","c","h","F","i","e","l","d">>,
     ScrollArea |-> <<"A","X","S","c","r","o","l","l","A","r","e","a">>,
     TabGroup |-> <<"A","X","T","a","b","G","r","o","u","p">>,
     SplitGroup |-> <<"A","X","S","p","l","i","t","G","r","o","u","p">>,
     Toolbar |-> <<"A","X","T","o","o","l","b","a","r">>,
     CheckBox |-> <<"A","X","C","h","e","c","k","B","o","x">>,
     RadioButton |-> <<"A","X","R","a","d","i","o","B","u","t","t","o","n">>,
     MenuItem |-> <<"A","X","M","e","n","u","I","t","e","m">>,
     Slider |-> <<"A","X","S","l","i","d","e","r">>]

\* native action names as getActions() lists them
AXActions ==
    [Press |-> <<"P","r","e","s","s">>,
     Open |-> <<"O","p","e","n">>,
     ShowMenu |-> <<"S","h","o","w","M","e","n","u">>,
     Raise |-> <<"R","a","i","s","e">>,
     PerformClick |-> <<"P","e","r","f","o","r","m","C","l","i","c","k">>,
     Confirm |-> <<"C","o","n","f","i","r","m">>,
     ScrollUpByPage |-> <<"S","c","r","o","l","l","U","p","B","y","P","a","g","e">>,
     ScrollDownByPage |-> <<"S","c","r","o","l","l","D","o","w","n","B","y","P","a","g","e">>,
     ScrollLeftByPage |-> <<"S","c","r","o","l","l","L","e","f","t","B","y","P","a","g","e">>,
     ScrollRightByPage |-> <<"S","c","r","o","l","l","R","i","g","h","t","B","y","P","a","g","e">>]

\* keywords of simplify_role and of the merge step
kw ==
    [Button |-> <<"b","u","t","t","o","n">>,
     Checkbox |-> <<"c","h","e","c","k","b","o","x">>,
     Radio |-> <<"r","a","d","i","o">>,
     Menu |-> <<"m","e","n","u">>,
     Tab |-> <<"t","a","b">>,
     Textfield |-> <<"t","e","x","t","f","i","e","l","d">>,
     TextArea |-> <<"t","e","x","t"," ","a","r","e","a">>,
     Search |-> <<"s","e","a","r","c","h">>,
     Statictext |-> <<"s","t","a","t","i","c","t","e","x","t">>,
     Label |-> <<"l","a","b","e","l">>,
     Scroll |-> <<"s","c","r","o","l","l">>,
     Window |-> <<"w","i","n","d","o","w">>,
     Group |-> <<"g","r","o","u","p">>,
     Split |-> <<"s","p","l","i","t">>,
     Toolbar |-> <<"t","o","o","l","b","a","r">>,
     Press |-> <<"p","r","e","s","s">>,
     Open |-> <<"o","p","e","n">>,
     Showmenu |-> <<"s","h","o","w","m","e","n","u">>,
     Showdefaultui |-> <<"s","h","o","w","d","e","f","a","u","l","t","u","i">>]

\* display texts
Texts ==
    [OK |-> <<"O","K">>,
     Status |-> <<"S","t","a","t","u","s">>,
     Main |-> <<"M","a","i","n">>,
     Hi |-> <<"h","i">>]

(* ------------------------------------------------------------------ *)
(* State                                                                *)
(* ------------------------------------------------------------------ *)

\* ui     : the target application's live element tree; ui[e] holds what
\*          the accessibility calls on handle e answer.  Handle 1 is the
\*          window passed to the operations.
\* issued : what the last get_window_structure_abstract call returned to the
\*          caller (NoneNode before the first call).
\* last   : the call in progress at the caller: its arguments and result
\*          (op = "idle" between calls).
\* shown  : the tree as it was when issued was returned (history).
VARIABLES ui, issued, shown, last

vars == <<ui, issued, shown, last>>

Root == 1

Elems == DOMAIN ui

Idle == [op |-> "idle"]

\* The answers of one element.  stale: the handle is invalid and every native
\* read or call on it raises.  actionsRaise: what getActions() does ("ok", or
\* the kind of error raised).  settable: whether setString("AXValue") works.
Element(role, acts, actsRaise, title, value, canSet) ==
    [stale |-> FALSE, AXRole |-> role, actions |-> acts, actionsRaise |-> actsRaise,
     AXTitle |-> title, AXLabel |-> NoneStr, AXValue |-> value,
     AXHelp |-> NoneStr, AXDescription |-> NoneStr, AXTitleUIElement |-> NoElem,
     AXRoleDescription |-> NoneStr, AXIdentifier |-> NoneStr, settable |-> canSet,
     AXChildren |-> <<>>, AXParent |-> NoElem]

KWindow == Element(AXRoles.Window, <<AXActions.Raise>>, "ok", Texts.Main, NoneStr, FALSE)
KGroup == Element(AXRoles.Group, <<>>, "ok", NoneStr, NoneStr, FALSE)
KButton == Element(AXRoles.Button, <<AXActions.Press>>, "ok", Texts.OK, NoneStr, FALSE)
KText == Element(AXRoles.StaticText, <<>>, "ok", NoneStr, Texts.Status, FALSE)
KIcon == Element(AXRoles.Image, <<AXActions.Press, AXActions.Open>>, "ok", NoneStr, NoneStr, FALSE)
KField == Element(AXRoles.TextField, <<AXActions.Confirm>>, "ok", NoneStr, NoneStr, TRUE)
KBusy == Element(AXRoles.Button, <<AXActions.Press>>, "err", Texts.OK, NoneStr, FALSE)
KStale == [Element(NoneStr, <<>>, "err", NoneStr, NoneStr, FALSE) EXCEPT !.stale = TRUE]
KScroll == Element(AXRoles.ScrollArea,
                   <<AXActions.ScrollUpByPage, AXActions.ScrollDownByPage,
                     AXActions.ScrollLeftByPage, AXActions.ScrollRightByPage>>,
                   "ok", NoneStr, NoneStr, FALSE)

RootKinds == {KWindow, KGroup}

\* what the windows of the listing specifications are made of
ListingKinds == {KGroup, KButton, KText, KIcon, KField, KScroll, KBusy, KStale}

\* what the windows of the dispatch specification are made of
DispatchKinds == {KIcon, KField, KBusy, KStale}

\* what the deep windows carry around the depth bound
DeepKinds == {KGroup, KButton, KText}

(* ------------------------------------------------------------------ *)
(* serializewindowstructure.py                                          *)
(* ------------------------------------------------------------------ *)

\* x in seq
InSeq(x, seq) == \E i \in 1..Len(seq) : seq[i] = x

\* simplify_role with the scroll rule ahead of the test for an absent role
simplify_roleScrollFirst(ax_role, actions) ==
    IF \E i \in 1..Len(actions) : StartsWith(Lower(actions[i]), kw.Scroll)
    THEN "scrollable"
    ELSE "element"

simplify_role(ax_role, actions) ==
    IF ax_role = NoneStr \/ ax_role = <<>> THEN "element"
    ELSE LET role == Lower(ax_role)
             has(k) == Contains(role, k)
             scrolls(a) == StartsWith(Lower(a), kw.Scroll)
         IN IF has(kw.Button) \/ has(kw.Checkbox) \/ has(kw.Radio) \/ has(kw.Menu) \/ has(kw.Tab)
            THEN "button"
            ELSE IF has(kw.Textfield) \/ has(kw.TextArea) \/ has(kw.Search)
            THEN "input"
            ELSE IF has(kw.Statictext) \/ has(kw.Label)
            THEN "text"
            ELSE IF \E i \in 1..Len(actions) : scrolls(actions[i])
            THEN "scrollable"
            ELSE IF has(kw.Window) \/ has(kw.Group) \/ has(kw.Split) \/ has(kw.Toolbar)
            THEN "container"
            ELSE "element"

\* isinstance(v, str) and v.strip()
IsText(v) == v # NoneStr /\ Strip(v) # <<>>

\* first(seq of candidate values): the first one that is a non-blank string
RECURSIVE FirstText(_)
FirstText(vals) ==
    IF vals = <<>> THEN NoneStr
    ELSE IF IsText(Head(vals)) THEN Strip(Head(vals))
    ELSE FirstText(Tail(vals))

get_accessibility_name(e) ==
    LET el == ui[e]
        title_el == el.AXTitleUIElement
        own == FirstText(<<el.AXTitle, el.AXLabel, el.AXValue, el.AXHelp, el.AXDescription>>)
        titled == IF title_el = NoElem \/ ui[title_el].stale THEN NoneStr
                  ELSE FirstText(<<ui[title_el].AXValue, ui[title_el].AXTitle,
                                   ui[title_el].AXLabel>>)
    IN IF el.stale THEN NoneStr
       ELSE IF own # NoneStr THEN own
       ELSE IF titled # NoneStr THEN titled
       ELSE FirstText(<<el.AXRoleDescription>>)

\* safe_get("AXChildren") or []
safe_children(e) == IF ui[e].stale THEN <<>> ELSE ui[e].AXChildren

\* valid_children keeping the children whose AXRole read raises
valid_childrenAll(e) == safe_children(e)

\* the children whose AXRole read does not raise, in order
valid_children(e) == SelectSeq(safe_children(e), LAMBDA c : ~ui[c].stale)

\* the depth bound of serialize()
MaxDepth == 40

\* TooDeep letting one more level through
TooDeepLate(depth) == depth > MaxDepth + 1

\* serialize()'s guard at the top: the branch is beyond the depth bound
TooDeep(depth) == depth > MaxDepth

\* role, actions = safe_get("AXRole"), elem.getActions(), or None, [] when
\* getActions() raises
RoleAndActions(e) ==
    IF ui[e].stale \/ ui[e].actionsRaise # "ok"
    THEN [role |-> NoneStr, actions |-> <<>>]
    ELSE [role |-> ui[e].AXRole, actions |-> ui[e].actions]

LowerAll(actions) == [i \in 1..Len(actions) |-> Lower(actions[i])]

\* RollUp leaving the element's actions as they are
RollUpNone(actions, childActions) == actions

\* for a in child actions: if a not in element actions: append
RECURSIVE RollUp(_, _)
RollUp(actions, childActions) ==
    IF childActions = <<>> THEN actions
    ELSE RollUp(IF InSeq(Head(childActions), actions) THEN actions
                ELSE Append(actions, Head(childActions)),
                Tail(childActions))

\* any(a in actions for a in ("press", "open", "showmenu", "showdefaultui"))
Actionable(actions) ==
    \E a \in {kw.Press, kw.Open, kw.Showmenu, kw.Showdefaultui} : InSeq(a, actions)

\* PathId naming a node by its last index alone
PathIdLeaf(path) == IntToStr(path[Len(path)])

\* "/".join(str(i) for i in path)
PathId(path) == JoinSlash([i \in 1..Len(path) |-> IntToStr(path[i])])

\* MergeChild without the promotion of the role
MergeChildPlain(data, child_data) ==
    LET acts == RollUp(data.actions, child_data.actions)
        absorb == /\ child_data.role = "text"
                  /\ data.name = NoneStr \/ data.name = <<>>
                  /\ Actionable(acts)
    IN [data EXCEPT !.actions = acts,
                    !.name = IF absorb THEN child_data.name ELSE @,
                    !.children = IF absorb THEN @ ELSE Append(@, child_data)]

\* MergeChild promoting whatever the role is
MergeChildPromoteAll(data, child_data) ==
    LET acts == RollUp(data.actions, child_data.actions)
        absorb == /\ child_data.role = "text"
                  /\ data.name = NoneStr \/ data.name = <<>>
                  /\ Actionable(acts)
    IN [data EXCEPT !.actions = acts,
                    !.role = IF Actionable(acts) THEN "button" ELSE @,
                    !.name = IF absorb THEN child_data.name ELSE @,
                    !.children = IF absorb THEN @ ELSE Append(@, child_data)]

\* One pass of the loop body over a serialized child (roll-up, promotion,
\* label absorption).
MergeChild(data, child_data) ==
    LET acts == RollUp(data.actions, child_data.actions)
        role == IF data.role \in {"element", "container"} /\ Actionable(acts)
                THEN "button" ELSE data.role
        absorb == /\ child_data.role = "text"
                  /\ data.name = NoneStr \/ data.name = <<>>
                  /\ Actionable(acts)
    IN [data EXCEPT !.actions = acts,
                    !.role = role,
                    !.name = IF absorb THEN child_data.name ELSE @,
                    !.children = IF absorb THEN @ ELSE Append(@, child_data)]

\* element_data as serialize() first builds it.  The field elem is
\* bookkeeping of the model: the handle the node was built from; it is not
\* in the output.
ElementData(e, path) ==
    [id |-> PathId(path),
     role |-> simplify_role(RoleAndActions(e).role, RoleAndActions(e).actions),
     name |-> get_accessibility_name(e),
     actions |-> LowerAll(RoleAndActions(e).actions),
     children |-> <<>>,
     elem |-> e]

\* One activation of serialize(elem, path, depth): its element_data so far,
\* its valid_children, and the position i of "for i, child in enumerate(...)"
\* (1-based: the next child to serialize).
Frame(e, path, depth) ==
    [data |-> ElementData(e, path), valid |-> valid_children(e), i |-> 1,
     path |-> path, depth |-> depth]

(* ------------------------------------------------------------------ *)
(* elementfinder.py: find_element_by_id                                 *)
(* ------------------------------------------------------------------ *)

\* What a call hands back: a value (an element handle, or NoElem for None)
\* or an exception.
Returned(e) == [kind |-> "value", elem |-> e]

Raised == [kind |-> "raise", elem |-> NoElem]

\* the descendants of e in document order (the order findFirstR visits them)
RECURSIVE DescendantsR(_)
RECURSIVE DescendantsOfAll(_)
DescendantsR(e) == IF ui[e].stale THEN <<>> ELSE DescendantsOfAll(ui[e].AXChildren)

DescendantsOfAll(cs) ==
    IF cs = <<>> THEN <<>>
    ELSE <<Head(cs)>> \o DescendantsR(Head(cs)) \o DescendantsOfAll(Tail(cs))

\* root_window.findFirstR(AXIdentifier=element_id), or None when the search
\* finds nothing or raises
findFirstR(root_window, element_id) ==
    LET hits == SelectSeq(DescendantsR(root_window),
                          LAMBDA d : ~ui[d].stale /\ ui[d].AXIdentifier = element_id)
    IN IF hits = <<>> THEN NoElem ELSE Head(hits)

\* re.search(r"@([\d/]+)$", element_id): the text after the last "@" when it is
\* one or more digits and slashes up to the end (or up to a final newline)
PathAfterAt(element_id) ==
    LET ats == {i \in 1..Len(element_id) : element_id[i] = "@"}
        k == CHOOSE i \in ats : \A j \in ats : j <= i
        rest == SubSeq(element_id, k + 1, Len(element_id))
        body == IF rest # <<>> /\ rest[Len(rest)] = "\n"
                THEN SubSeq(rest, 1, Len(rest) - 1) ELSE rest
        ok == /\ ats # {}
              /\ body # <<>>
              /\ \A i \in 1..Len(body) : IsDigit(body[i]) \/ body[i] = "/"
    IN IF ok THEN body ELSE element_id

\* [int(x) for x in path_str.strip("/").split("/") if x.strip() != ""]
ParseIndices(path_str) ==
    LET parts == SelectSeq(SplitSlash(StripSlash(path_str)), LAMBDA x : Strip(x) # <<>>)
    IN [ok |-> \A i \in 1..Len(parts) : ParseInt(parts[i]).ok,
        indices |-> [i \in 1..Len(parts) |-> ParseInt(parts[i]).val]]

\* children[i] for a Python list: a negative i counts from the end; NoElem
\* stands for the IndexError
ListItem(children, i) ==
    IF 0 <= i /\ i < Len(children) THEN children[i + 1]
    ELSE IF i < 0 /\ 0 - i <= Len(children) THEN children[Len(children) + i + 1]
    ELSE NoElem

\* FindDescend with an index beyond the list taken as the last child
RECURSIVE FindDescendClamped(_, _)
FindDescendClamped(elem, indices) ==
    IF indices = <<>> THEN elem
    ELSE LET i == Head(indices)
             children == ui[elem].AXChildren
         IN IF ui[elem].stale \/ children = <<>> THEN NoElem
            ELSE IF i >= Len(children)
            THEN FindDescendClamped(children[Len(children)], Tail(indices))
            ELSE IF ListItem(children, i) = NoElem THEN NoElem
            ELSE FindDescendClamped(ListItem(children, i), Tail(indices))

\* the loop of find_element_by_id over indices[1:]
RECURSIVE FindDescend(_, _)
FindDescend(elem, indices) ==
    IF indices = <<>> THEN elem
    ELSE LET i == Head(indices)
             children == ui[elem].AXChildren
         IN IF ui[elem].stale THEN NoElem
            ELSE IF children = <<>> \/ i >= Len(children) THEN NoElem
            ELSE IF ListItem(children, i) = NoElem THEN NoElem
            ELSE FindDescend(ListItem(children, i), Tail(indices))

find_element_by_id(root_window, element_id) ==
    LET direct == IF /\ ~HasChar(element_id, "@")
                     /\ ~HasChar(element_id, "/")
                     /\ IsIdentifier(element_id)
                  THEN findFirstR(root_window, element_id) ELSE NoElem
        parsed == ParseIndices(PathAfterAt(element_id))
    IN IF element_id = <<>> THEN Returned(NoElem)
       ELSE IF direct # NoElem THEN Returned(direct)
       ELSE IF ~parsed.ok THEN Raised
       ELSE Returned(FindDescend(root_window,
                                 IF parsed.indices = <<>> THEN <<>>
                                 ELSE Tail(parsed.indices)))

(* ------------------------------------------------------------------ *)
(* elementfinder.py: perform_element_action                             *)
(* ------------------------------------------------------------------ *)

\* What one native invocation can do: succeed, raise an error whose text
\* carries the code -25205, or raise another error.
Outcomes == {"ok", "benign", "err"}

\* How the native invocations of one step behave: the first errs of them
\* raise a plain error, the following ones behave as final says.
Schedules == [errs : 0..MaxErrs, final : Outcomes]

OutcomeOf(sched, j) == IF j <= sched.errs THEN "err" ELSE sched.final

\* the loop of perform_element_action over indices[1:]; NoElem stands for
\* return False (index too large) and for the exception that ends the call
RECURSIVE PerformDescend(_, _)
PerformDescend(elem, indices) ==
    IF indices = <<>> THEN elem
    ELSE LET i == Head(indices)
             children == ui[elem].AXChildren
         IN IF ui[elem].stale THEN NoElem
            ELSE IF i >= Len(children) THEN NoElem
            ELSE IF ListItem(children, i) = NoElem THEN NoElem
            ELSE PerformDescend(ListItem(children, i), Tail(indices))

\* Whether the call ends in the descent by an exception (an invalid handle, a
\* negative index beyond the list) and not by "return False".
RECURSIVE DescentRaises(_, _)
DescentRaises(elem, indices) ==
    IF indices = <<>> THEN FALSE
    ELSE LET i == Head(indices)
             children == ui[elem].AXChildren
         IN IF ui[elem].stale THEN TRUE
            ELSE IF i >= Len(children) THEN FALSE
            ELSE IF ListItem(children, i) = NoElem THEN TRUE
            ELSE DescentRaises(ListItem(children, i), Tail(indices))

\* the element the call acts on, NoElem when the call ends in the descent
PerformTarget(window, element_id) ==
    LET parsed == ParseIndices(element_id)
    IN IF ~parsed.ok THEN NoElem
       ELSE PerformDescend(window, IF parsed.indices = <<>> THEN <<>>
                                   ELSE Tail(parsed.indices))

TextActions == {<<"t","y","p","e">>, <<"i","n","p","u","t">>,
                <<"s","e","t","v","a","l","u","e">>}

\* action -> native paging action
ScrollActions ==
    {<<<<"s","c","r","o","l","l","u","p">>, AXActions.ScrollUpByPage>>,
     <<<<"s","c","r","o","l","l","d","o","w","n">>, AXActions.ScrollDownByPage>>,
     <<<<"s","c","r","o","l","l","l","e","f","t">>, AXActions.ScrollLeftByPage>>,
     <<<<"s","c","r","o","l","l","r","i","g","h","t">>, AXActions.ScrollRightByPage>>}

IsScrollAction(action) == \E m \in ScrollActions : m[1] = action

\* ax_action giving the same paging action for every direction
ax_actionDown(action) == AXActions.ScrollDownByPage

ax_action(action) == (CHOOSE m \in ScrollActions : m[1] = action)[2]

\* for candidate in (...): the order the code tries the native actions in
Candidates == <<AXActions.Press, AXActions.Open, AXActions.ShowMenu, AXActions.Raise, AXActions.PerformClick>>

\* one native call, as the log of a run records it
Call(e, name, outcome) == [elem |-> e, call |-> name, outcome |-> outcome]

\* The text-entry branch.  failAt numbers the native call that raises in this
\* run: 1 setString, 2 getActions, 3 Confirm, 4 and 5 the two return keys
\* (0: none).  Any exception ends the call in the outer handler: False.
TextEntry(elem, value, failAt) ==
    LET el == ui[elem]
        setOk == ~el.stale /\ el.settable /\ failAt # 1
        readOk == el.actionsRaise = "ok" /\ failAt # 2
        confirms == readOk /\ InSeq(AXActions.Confirm, el.actions)
        log1 == <<Call(elem, "setString", IF setOk THEN "ok" ELSE "err")>>
        log3 == Append(log1, Call(elem, AXActions.Confirm, IF failAt = 3 THEN "err" ELSE "ok"))
        log4 == Append(log3, Call(elem, "sendGlobalKey", IF failAt = 4 THEN "err" ELSE "ok"))
        log5 == Append(log4, Call(elem, "sendGlobalKey", IF failAt = 5 THEN "err" ELSE "ok"))
    IN IF value = NoneStr THEN [result |-> FALSE, log |-> <<>>, valueSet |-> FALSE]
       ELSE IF ~setOk THEN [result |-> FALSE, log |-> log1, valueSet |-> FALSE]
       ELSE IF ~readOk THEN [result |-> FALSE, log |-> log1, valueSet |-> TRUE]
       ELSE IF ~confirms THEN [result |-> TRUE, log |-> log1, valueSet |-> TRUE]
       ELSE IF failAt = 3 THEN [result |-> FALSE, log |-> log3, valueSet |-> TRUE]
       ELSE IF failAt = 4 THEN [result |-> FALSE, log |-> log4, valueSet |-> TRUE]
       ELSE [result |-> failAt # 5, log |-> log5, valueSet |-> TRUE]

\* The scroll branch: getattr(elem, ax_action)() once; an element that does
\* not list the action has no such attribute, and nothing is invoked.
ScrollOnce(elem, action, sched) ==
    LET el == ui[elem]
        out == OutcomeOf(sched, 1)
    IN IF el.stale \/ el.actionsRaise # "ok" \/ ~InSeq(ax_action(action), el.actions)
       THEN [result |-> FALSE, log |-> <<>>]
       ELSE [result |-> out = "ok", log |-> <<Call(elem, ax_action(action), out)>>]

\* BenignIsSuccess treating -25205 as any other error
BenignIgnored(out) == FALSE

\* if "-25205" in str(e): return True
BenignIsSuccess(out) == out = "benign"

\* Which native action the direct attempt may invoke for a request: the code
\* walks the fixed candidate list and never looks at the requested name.
DirectCandidates(action) == Candidates

\* The loop over the candidates on the resolved element: getActions() is read
\* for each candidate; returned says the call returned inside the loop.
RECURSIVE DirectLoop(_, _, _, _)
DirectLoop(elem, cands, sched, log) ==
    IF cands = <<>> THEN [returned |-> FALSE, log |-> log]
    ELSE LET el == ui[elem]
             out == OutcomeOf(sched, Len(log) + 1)
             log2 == Append(log, Call(elem, Head(cands), out))
         IN IF el.stale \/ el.actionsRaise = "err"
            THEN DirectLoop(elem, Tail(cands), sched, log)
            ELSE IF BenignIsSuccess(el.actionsRaise) THEN [returned |-> TRUE, log |-> log]
            ELSE IF ~InSeq(Head(cands), el.actions)
            THEN DirectLoop(elem, Tail(cands), sched, log)
            ELSE IF out = "ok" \/ BenignIsSuccess(out) THEN [returned |-> TRUE, log |-> log2]
            ELSE DirectLoop(elem, Tail(cands), sched, log2)

\* One pass of the while loop body on an ancestor: actions is what
\* getActions() gave ([] when it raised); base is the length of the log when
\* the pass began.
RECURSIVE ParentLoop(_, _, _, _, _, _)
ParentLoop(parent, actions, cands, sched, log, base) ==
    IF cands = <<>> THEN [returned |-> FALSE, log |-> log]
    ELSE LET out == OutcomeOf(sched, Len(log) - base + 1)
             log2 == Append(log, Call(parent, Head(cands), out))
         IN IF ~InSeq(Head(cands), actions)
            THEN ParentLoop(parent, actions, Tail(cands), sched, log, base)
            ELSE IF out = "ok" \/ BenignIsSuccess(out) THEN [returned |-> TRUE, log |-> log2]
            ELSE ParentLoop(parent, actions, Tail(cands), sched, log2, base)

\* getattr(x, "AXParent", None): raises on an invalid handle
ParentReadRaises(e) == ui[e].stale

\* actions = parent.getActions(), [] when that raises
ParentActions(parent) ==
    IF ui[parent].stale \/ ui[parent].actionsRaise # "ok" THEN <<>> ELSE ui[parent].actions

(* ------------------------------------------------------------------ *)
(* Windows the operations start from                                    *)
(* ------------------------------------------------------------------ *)

\* children of p under a parent vector, in handle order
RECURSIVE ChildrenOf(_, _, _)
ChildrenOf(par, p, n) ==
    IF n > Len(par) THEN <<>>
    ELSE (IF par[n] = p THEN <<n>> ELSE <<>>) \o ChildrenOf(par, p, n + 1)

\* Parent vectors over 1..n: the root has none, every other handle hangs
\* below a smaller one, or is detached (parent NoElem, and then so are the
\* handles after it).
ParentVectors(n) ==
    {par \in [1..n -> 0..n] :
        /\ par[1] = NoElem
        /\ \A e \in 2..n : par[e] < e
        /\ \A e \in 2..n : par[e] = NoElem => \A f \in e..n : par[f] = NoElem}

Window(par, kind) ==
    [e \in DOMAIN par |->
        [kind[e] EXCEPT !.AXChildren = ChildrenOf(par, e, 2), !.AXParent = par[e]]]

\* Windows of up to MaxNodes elements; a handle that is not attached is a
\* spare one the application may attach later.
ShallowWindows(kinds) ==
    {Window(par, kind) :
        par \in ParentVectors(MaxNodes),
        kind \in {k \in [1..MaxNodes -> RootKinds \cup kinds] :
                     /\ k[1] \in RootKinds
                     /\ \A e \in 2..MaxNodes : k[e] \in kinds}}

\* the handles that are not attached are all of one kind
SparesPlain(w, k) == \A e \in DOMAIN w : e # Root /\ w[e].AXParent = NoElem => w[e] = k

\* Windows that are one chain reaching from the root to around the depth
\* bound: level MaxDepth - 1 at least, level MaxDepth + DeepSlack at most;
\* groups down to level MaxDepth - 1, any of DeepKinds from level MaxDepth on.
DeepNodes == MaxDepth + 1 + DeepSlack

DeepWindows ==
    {Window([e \in 1..DeepNodes |-> IF e <= len THEN e - 1 ELSE NoElem],
            [e \in 1..DeepNodes |-> IF e = Root THEN top
                                    ELSE IF e <= MaxDepth THEN KGroup
                                    ELSE IF e <= len THEN low[e] ELSE KButton]) :
        len \in MaxDepth..DeepNodes,
        top \in RootKinds,
        low \in [(MaxDepth + 1)..DeepNodes -> DeepKinds]}

InitListing ==
    /\ ui \in {w \in ShallowWindows(ListingKinds) : SparesPlain(w, KButton)}
    /\ issued = NoneNode
    /\ shown = ui
    /\ last = Idle

InitDispatch ==
    /\ ui \in {w \in ShallowWindows(DispatchKinds) : SparesPlain(w, KIcon)}
    /\ issued = NoneNode
    /\ shown = ui
    /\ last = Idle

InitDeep ==
    /\ ui \in DeepWindows
    /\ issued = NoneNode
    /\ shown = ui
    /\ last = Idle

(* ------------------------------------------------------------------ *)
(* Operations                                                           *)
(* ------------------------------------------------------------------ *)

\* every node of a serialized tree
RECURSIVE NodesOf(_)
NodesOf(node) ==
    IF node = NoneNode THEN {}
    ELSE {node} \cup UNION {NodesOf(node.children[i]) : i \in 1..Len(node.children)}

IdsOf(node) == {n.id : n \in NodesOf(node)}

\* e hangs in the window: a chain of parents leads to the root, each listing
\* its child
RECURSIVE Attached(_)
Attached(e) ==
    \/ e = Root
    \/ /\ ui[e].AXParent # NoElem
       /\ InSeq(e, ui[ui[e].AXParent].AXChildren)
       /\ Attached(ui[e].AXParent)

\* position of e in a sequence that holds it (0-based)
IndexIn(e, seq) == (CHOOSE i \in 1..Len(seq) : seq[i] = e) - 1

\* the child positions leading from the root to an attached element
RECURSIVE RawPath(_)
RawPath(e) ==
    IF e = Root THEN <<0>>
    ELSE Append(RawPath(ui[e].AXParent), IndexIn(e, ui[ui[e].AXParent].AXChildren))

\* Ids a caller may also send: empty, negative components, components beyond
\* any child list, components that are no numbers.
OtherIds ==
    {<<>>,
     <<"0","/","-","1">>,
     <<"0","/","9">>,
     <<"0","/","a">>}

\* Ids a caller sends: those of the last listing, the path of any element of
\* the window, and the others.
CallerIds ==
    IdsOf(issued) \cup {PathId(RawPath(e)) : e \in {x \in Elems : Attached(x)}} \cup OtherIds

\* action names a caller sends
Requests ==
    {<<"p","r","e","s","s">>, <<"o","p","e","n">>,
     <<"T","y","p","e">>,
     <<"s","c","r","o","l","l","d","o","w","n">>}

\* values a caller sends with a request (NoneStr: no value)
Values == {NoneStr, Texts.Hi}

\* The caller takes the result of the finished call; the next call may start.
Return ==
    /\ last # Idle
    /\ last.op \in {"perform", "list"} => last.pc = "done"
    /\ last' = Idle
    /\ UNCHANGED <<ui, issued, shown>>

\* get_window_structure_abstract(window): the call serialize(window, [0]).
\* The recursion of serialize is kept as a stack of activations in last.
ListCall ==
    /\ last = Idle
    /\ IF TooDeep(0)
       THEN /\ last' = [op |-> "list", pc |-> "done", stack |-> <<>>]
            /\ issued' = NoneNode
            /\ shown' = ui
       ELSE /\ last' = [op |-> "list", pc |-> "run", stack |-> <<Frame(Root, <<0>>, 0)>>]
            /\ UNCHANGED <<issued, shown>>
    /\ UNCHANGED ui

\* One step of the innermost activation of serialize: the next child of the
\* loop (a recursive call, or None at once beyond the depth bound), or the
\* return of element_data into the caller's merge step.
ListStep ==
    /\ last # Idle
    /\ last.op = "list"
    /\ last.pc = "run"
    /\ LET n == Len(last.stack)
           top == last.stack[n]
           below == SubSeq(last.stack, 1, n - 1)
           advanced == [top EXCEPT !.i = @ + 1]
       IN IF top.i > Len(top.valid)
          THEN IF n = 1
               THEN /\ issued' = top.data
                    /\ shown' = ui
                    /\ last' = [last EXCEPT !.pc = "done", !.stack = <<>>]
               ELSE /\ last' = [last EXCEPT !.stack =
                                   SubSeq(below, 1, n - 2)
                                   \o <<[below[n - 1] EXCEPT
                                           !.data = MergeChild(@, top.data)]>>]
                    /\ UNCHANGED <<issued, shown>>
          ELSE /\ last' = [last EXCEPT !.stack =
                              IF TooDeep(top.depth + 1)
                              THEN Append(below, advanced)
                              ELSE below \o <<advanced,
                                              Frame(top.valid[top.i],
                                                    Append(top.path, top.i - 1),
                                                    top.depth + 1)>>]
               /\ UNCHANGED <<issued, shown>>
    /\ UNCHANGED ui

\* find_element_by_id on the window
Resolve ==
    /\ last = Idle
    /\ \E id \in CallerIds :
          last' = [op |-> "resolve", id |-> id, ret |-> find_element_by_id(Root, id)]
    /\ UNCHANGED <<ui, issued, shown>>

\* OuterExcept letting the exception leave the call
OuterExceptMissing(exc, result) == [raised |-> exc, result |-> result]

\* try: ... except Exception: return False, around the whole body of
\* perform_element_action; exc says an exception reached it.
OuterExcept(exc, result) == [raised |-> FALSE, result |-> IF exc THEN FALSE ELSE result]

\* a perform_element_action call that has ended
Done(id, action, value, target, result, log, exc) ==
    [op |-> "perform", id |-> id, action |-> action, value |-> value,
     target |-> target, pc |-> "done", at |-> NoElem,
     result |-> OuterExcept(exc, result).result, log |-> log,
     exc |-> exc, raised |-> OuterExcept(exc, result).raised]

\* perform_element_action(app, window, element_id, action, value) up to its
\* return or to the start of the climb over the parents
PerformCall(id, action, value, sched, failAt) ==
    LET elem == PerformTarget(Root, id)
        parsed == ParseIndices(id)
        descentExc == \/ ~parsed.ok
                      \/ /\ parsed.indices # <<>>
                         /\ DescentRaises(Root, Tail(parsed.indices))
        act == Lower(action)
        text == TextEntry(elem, value, failAt)
        scroll == ScrollOnce(elem, act, sched)
        direct == DirectLoop(elem, DirectCandidates(act), sched, <<>>)
    IN /\ last = Idle
       /\ IF elem = NoElem
          THEN /\ last' = Done(id, action, value, NoElem, FALSE, <<>>, descentExc)
               /\ UNCHANGED ui
          ELSE IF act \in TextActions
          THEN /\ last' = Done(id, action, value, elem, text.result, text.log,
                               value # NoneStr /\ ~text.result)
               /\ ui' = IF text.valueSet THEN [ui EXCEPT ![elem].AXValue = value] ELSE ui
          ELSE IF IsScrollAction(act)
          THEN /\ last' = Done(id, action, value, elem, scroll.result, scroll.log, FALSE)
               /\ UNCHANGED ui
          ELSE /\ last' = IF direct.returned
                          THEN Done(id, action, value, elem, TRUE, direct.log, FALSE)
                          ELSE IF ParentReadRaises(elem) \/ ui[elem].AXParent = NoElem
                          THEN Done(id, action, value, elem, FALSE, direct.log,
                                    ParentReadRaises(elem))
                          ELSE [Done(id, action, value, elem, FALSE, direct.log, FALSE)
                                  EXCEPT !.pc = "climb", !.at = ui[elem].AXParent]
               /\ UNCHANGED ui
       /\ UNCHANGED <<issued, shown>>

Perform ==
    \E id \in CallerIds, action \in Requests :
       LET isText == Lower(action) \in TextActions
       IN \E value \in (IF isText THEN Values ELSE {NoneStr}),
             failAt \in (IF isText THEN 0..5 ELSE {0}),
             sched \in (IF isText THEN {[errs |-> 0, final |-> "ok"]}
                        ELSE IF IsScrollAction(Lower(action))
                        THEN {s \in Schedules : s.errs = 0}
                        ELSE Schedules) :
             PerformCall(id, action, value, sched, failAt)

\* one pass of "while parent:" in perform_element_action
ClimbStep ==
    /\ last # Idle
    /\ last.op = "perform"
    /\ last.pc = "climb"
    /\ \E sched \in Schedules :
          LET parent == last.at
              pass == ParentLoop(parent, ParentActions(parent), Candidates, sched,
                                 last.log, Len(last.log))
          IN last' = IF pass.returned
                     THEN [last EXCEPT !.pc = "done", !.at = NoElem, !.result = TRUE,
                                       !.log = pass.log]
                     ELSE IF ParentReadRaises(parent) \/ ui[parent].AXParent = NoElem
                     THEN [last EXCEPT !.pc = "done", !.at = NoElem,
                             !.result = OuterExcept(ParentReadRaises(parent), FALSE).result,
                             !.log = pass.log,
                             !.exc = ParentReadRaises(parent),
                             !.raised = OuterExcept(ParentReadRaises(parent), FALSE).raised]
                     ELSE [last EXCEPT !.at = ui[parent].AXParent, !.log = pass.log]
    /\ UNCHANGED <<ui, issued, shown>>

\* the elements below and including e
RECURSIVE Subtree(_)
Subtree(e) == {e} \cup UNION {Subtree(ui[e].AXChildren[i]) : i \in 1..Len(ui[e].AXChildren)}

RemoveAt(seq, i) == SubSeq(seq, 1, i - 1) \o SubSeq(seq, i + 1, Len(seq))

InsertAt(seq, i, x) == SubSeq(seq, 1, i) \o <<x>> \o SubSeq(seq, i + 1, Len(seq))

\* The target application removes an element from its window, between two
\* calls: the handles of the removed subtree become invalid.
AppRemoves ==
    /\ last = Idle
    /\ \E p \in {x \in Elems : Attached(x)} :
          \E i \in 1..Len(ui[p].AXChildren) :
             LET gone == Subtree(ui[p].AXChildren[i])
             IN ui' = [e \in Elems |->
                         IF e = p THEN [ui[e] EXCEPT !.AXChildren = RemoveAt(@, i)]
                         ELSE IF e = ui[p].AXChildren[i]
                         THEN [ui[e] EXCEPT !.stale = TRUE, !.AXParent = NoElem]
                         ELSE IF e \in gone THEN [ui[e] EXCEPT !.stale = TRUE]
                         ELSE ui[e]]
    /\ UNCHANGED <<issued, shown, last>>

\* The target application adds an element to its window, between two calls.
AppInserts ==
    /\ last = Idle
    /\ \E f \in {x \in Elems : x # Root /\ ui[x].AXParent = NoElem /\ ~ui[x].stale} :
          \E p \in {x \in Elems : Attached(x) /\ ~ui[x].stale} :
             \E i \in 0..Len(ui[p].AXChildren) :
                ui' = [ui EXCEPT ![p].AXChildren = InsertAt(@, i, f),
                                 ![f].AXParent = p]
    /\ UNCHANGED <<issued, shown, last>>

(* ------------------------------------------------------------------ *)
(* Specifications                                                       *)
(* ------------------------------------------------------------------ *)

\* listing and resolving on a window that does not change
NextListing == ListCall \/ ListStep \/ Resolve \/ Return

SpecListing == InitListing /\ [][NextListing]_vars

\* listing and resolving while the application changes its window
NextMutating == ListCall \/ ListStep \/ AppRemoves \/ AppInserts \/ Resolve \/ Return

SpecMutating == InitListing /\ [][NextMutating]_vars

\* a get_window_structure_abstract call is under way
ListRunning == last # Idle /\ last.op = "list" /\ last.pc = "run"

\* listing windows that reach beyond the depth bound
NextDeep == ListCall \/ ListStep \/ Return

\* A call that has begun keeps running (the walk is one synchronous call):
\* weak fairness of ListStep.  ListStep is enabled exactly when ListRunning
\* holds, and WF_vars(ListStep) is written out with that state predicate in
\* the place of ENABLED <<ListStep>>_vars.
SpecDeep ==
    InitDeep /\ [][NextDeep]_vars /\ ([]<>~ListRunning \/ []<><<ListStep>>_vars)

\* resolving and acting on elements
NextDispatch == Resolve \/ Perform \/ ClimbStep \/ Return

SpecDispatch == InitDispatch /\ [][NextDispatch]_vars

(* ------------------------------------------------------------------ *)
(* Claims                                                               *)
(* ------------------------------------------------------------------ *)

\* the listing the caller holds was made of the window as it is now
Unchanged == issued # NoneNode /\ shown = ui

\* a find_element_by_id call has returned
Resolved == last # Idle /\ last.op = "resolve"

\* C1: round trip over one tree snapshot: resolving the id of any node of the
\* listing, on the unchanged window, returns the element the node was
\* serialized from.
C1_RoundTrip ==
    (Resolved /\ Unchanged) =>
        \A N \in NodesOf(issued) : last.id = N.id => last.ret = Returned(N.elem)

\* the remembered tree: proper ancestors and positions as they were when the
\* listing was returned
RECURSIVE ShownAncestors(_)
ShownAncestors(e) ==
    IF shown[e].AXParent = NoElem THEN {}
    ELSE {shown[e].AXParent} \cup ShownAncestors(shown[e].AXParent)

RECURSIVE ShownRawPath(_)
ShownRawPath(e) ==
    IF e = Root THEN <<0>>
    ELSE Append(ShownRawPath(shown[e].AXParent),
                IndexIn(e, shown[shown[e].AXParent].AXChildren))

\* the id of node N named N's element by position when it was issued
IssuedAtPosition(N) == PathId(ShownRawPath(N.elem)) = N.id

\* some child list on the way from the root to N's element is no longer what
\* it was when the id was issued
ShapeDiffers(N) ==
    \E a \in ShownAncestors(N.elem) : ui[a].AXChildren # shown[a].AXChildren

\* the proper ancestors of an element of the window
RECURSIVE Ancestors(_)
Ancestors(e) ==
    IF ui[e].AXParent = NoElem THEN {}
    ELSE {ui[e].AXParent} \cup Ancestors(ui[e].AXParent)

\* a walk from the root can get to e: e hangs in the window and the child
\* list of every element above it can be read
Reachable(e) == Attached(e) /\ \A a \in Ancestors(e) : ~ui[a].stale

\* C2 as stated: once the shape along the remembered path has changed,
\* resolving the id gives None, never an element other than the one the id
\* was issued for.
C2_ChangedShapeNotFound ==
    Resolved =>
        \A N \in NodesOf(issued) :
            (last.id = N.id /\ IssuedAtPosition(N) /\ ShapeDiffers(N)) =>
                last.ret \in {Returned(NoElem), Returned(N.elem)}

\* C2 as amended: resolving an issued id re-walks the remembered positions in
\* the window as it is now: the result is the element now at that position,
\* and None exactly when no element can be reached at that position.
C2_PositionalResolve ==
    (Resolved /\ last.id \in IdsOf(issued)) =>
        /\ last.ret.kind = "value"
        /\ last.ret.elem # NoElem =>
              Reachable(last.ret.elem) /\ PathId(RawPath(last.ret.elem)) = last.id
        /\ last.ret.elem = NoElem =>
              ~\E e \in Elems : Reachable(e) /\ PathId(RawPath(e)) = last.id

\* C2 witness: after the application changed the window, an issued id
\* resolved to an element other than the one it was issued for.
C2_Witness ==
    /\ Resolved
    /\ \E N \in NodesOf(issued) :
          /\ last.id = N.id
          /\ IssuedAtPosition(N)
          /\ ShapeDiffers(N)
          /\ last.ret.elem \notin {NoElem, N.elem}

\* a perform_element_action call has begun
Performed == last # Idle /\ last.op = "perform"

\* walking idxs down from e leaves the window: some index is not a position
\* of the child list it is applied to, or that list cannot be read
RECURSIVE OutOfRange(_, _)
OutOfRange(e, idxs) ==
    /\ idxs # <<>>
    /\ \/ ui[e].stale
       \/ Head(idxs) \notin 0..(Len(ui[e].AXChildren) - 1)
       \/ OutOfRange(ui[e].AXChildren[Head(idxs) + 1], Tail(idxs))

\* id is a path of integers that leaves the window
PathOutOfRange(id) ==
    LET parsed == ParseIndices(id)
    IN parsed.ok /\ parsed.indices # <<>> /\ OutOfRange(Root, Tail(parsed.indices))

\* C3: for a path id one of whose indices is out of range for the child list
\* it is applied to (negative, too large, list empty or unreadable),
\* find_element_by_id returns None, and perform_element_action returns False
\* without invoking anything.
C3_OutOfRangeFails ==
    /\ (Resolved /\ PathOutOfRange(last.id)) => last.ret = Returned(NoElem)
    /\ (Performed /\ PathOutOfRange(last.id)) =>
          last.pc = "done" /\ ~last.result /\ last.log = <<>>

\* the window of the two-level example: a window or group root without a
\* press action, whose children are a button "OK" with action Press and a
\* static text "Status", both leaves
TwoLevelWindow ==
    /\ ui[Root] \in {[KWindow EXCEPT !.AXChildren = <<2, 3>>],
                     [KGroup EXCEPT !.AXChildren = <<2, 3>>]}
    /\ ui[2] = [KButton EXCEPT !.AXParent = Root]
    /\ ui[3] = [KText EXCEPT !.AXParent = Root]

\* a node of the listing as the caller sees it, one level deep
Seen(node) ==
    [id |-> node.id, role |-> node.role, name |-> node.name,
     actions |-> node.actions, children |-> Len(node.children)]

SeenOK == [id |-> <<"0","/","0">>, role |-> "button", name |-> Texts.OK,
           actions |-> <<kw.Press>>, children |-> 0]

SeenStatus == [id |-> <<"0","/","1">>, role |-> "text", name |-> Texts.Status,
               actions |-> <<>>, children |-> 0]

SeenChildren(node) == [i \in 1..Len(node.children) |-> Seen(node.children[i])]

\* C4 as stated: the listing of the two-level window has a root with id "0"
\* and role "container" whose children are exactly the button 0/0 and the
\* text 0/1.
C4_TwoLevelContainer ==
    (Unchanged /\ TwoLevelWindow) =>
        /\ issued.id = <<"0">>
        /\ issued.role = "container"
        /\ SeenChildren(issued) = <<SeenOK, SeenStatus>>

\* C4 as amended: the root has id "0", carries the rolled-up press action and
\* is promoted to role "button"; its first child is the button 0/0; the text
\* is absorbed as the root's name when the root has no name of its own, and
\* is the second child 0/1 otherwise.
C4_TwoLevelPromoted ==
    (Unchanged /\ TwoLevelWindow) =>
        /\ issued.id = <<"0">>
        /\ issued.role = "button"
        /\ InSeq(kw.Press, issued.actions)
        /\ IF get_accessibility_name(Root) = NoneStr
           THEN issued.name = Texts.Status /\ SeenChildren(issued) = <<SeenOK>>
           ELSE /\ issued.name = get_accessibility_name(Root)
                /\ SeenChildren(issued) = <<SeenOK, SeenStatus>>

\* C4 witness: the two-level window with an unnamed root has been listed.
C4_Witness ==
    /\ Unchanged
    /\ TwoLevelWindow
    /\ get_accessibility_name(Root) = NoneStr
    /\ last # Idle /\ last.op = "list" /\ last.pc = "done"

\* the positions among the retained children leading from the root to e
RECURSIVE ValidPath(_)
ValidPath(e) ==
    IF e = Root THEN <<0>>
    ELSE Append(ValidPath(ui[e].AXParent),
                IndexIn(e, valid_children(ui[e].AXParent)))

\* C5: within one listing no two nodes share an id; the root's id is "0" and
\* every node's id is the "/"-joined sequence of the child indices (among the
\* children the listing retains) leading from the root to its element.
C5_IdsArePaths ==
    Unchanged =>
        /\ issued.id = <<"0">>
        /\ \A N, M \in NodesOf(issued) : N.id = M.id => N = M
        /\ \A N \in NodesOf(issued) :
              /\ N.id = JoinSlash([i \in 1..Len(ValidPath(N.elem)) |->
                                      IntToStr(ValidPath(N.elem)[i])])
              /\ ParseIndices(N.id) = [ok |-> TRUE, indices |-> ValidPath(N.elem)]
              /\ \A k \in 1..Len(N.children) :
                    N.children[k].id = N.id \o <<"/">> \o IntToStr(ValidPath(N.children[k].elem)[Len(ValidPath(N.children[k].elem))])

\* C5 witness: a listing of three levels has been returned.
C5_Witness ==
    /\ Unchanged
    /\ \E N \in NodesOf(issued) : Len(ValidPath(N.elem)) = 3
    /\ last # Idle /\ last.op = "list" /\ last.pc = "done"

\* the level of an element of the window (the root is at level 0)
Level(e) == Len(RawPath(e)) - 1

\* the serializer gives e the role "text"
ListsAsText(e) ==
    simplify_role(RoleAndActions(e).role, RoleAndActions(e).actions) = "text"

ListFinished == last # Idle /\ last.op = "list" /\ last.pc = "done"

\* what a finished walk has made of the window it walked
ListingWithinBound ==
    (ListFinished /\ Unchanged) =>
        /\ issued.id = <<"0">>
        /\ \A N \in NodesOf(issued) :
              /\ Level(N.elem) <= MaxDepth
              /\ Level(N.elem) = MaxDepth => N.children = <<>>
        /\ \A e \in Elems :
              (Attached(e) /\ Level(e) <= MaxDepth) =>
                 \/ \E N \in NodesOf(issued) : N.elem = e
                 \/ \E a \in Ancestors(e) \cup {e} : ListsAsText(a)

\* C6: the walk of get_window_structure_abstract ends on every window; what
\* it returns is a listing, not an error, in which no node lies below level
\* 40: the nodes of level 40 have no children, whatever the window has below
\* them, and the levels up to 40 are listed (but for absorbed texts).
C6_BoundedListing ==
    /\ []ListingWithinBound
    /\ ListRunning ~> ListFinished

\* C6 witness: a window reaching below level 40 has been listed.
C6_Witness ==
    /\ ListFinished
    /\ Unchanged
    /\ \E e \in Elems : Attached(e) /\ Level(e) > MaxDepth
    /\ \E N \in NodesOf(issued) : Level(N.elem) = MaxDepth

\* the requests of the press family, and the native action each one names
IsPressRequest(action) ==
    \E i \in 1..Len(Candidates) : Lower(Candidates[i]) = Lower(action)

NativeOf(action) ==
    Candidates[CHOOSE i \in 1..Len(Candidates) : Lower(Candidates[i]) = Lower(action)]

\* the element can perform the native action
Supports(e, native) ==
    ~ui[e].stale /\ ui[e].actionsRaise = "ok" /\ InSeq(native, ui[e].actions)

PerformDone == Performed /\ last.pc = "done"

\* C7: a press-family request on an element that cannot perform the action
\* succeeds only by an ancestor performing that action (the last thing that
\* is invoked), and fails only if no ancestor performed it.
C7_AncestorClimb ==
    (PerformDone /\ IsPressRequest(last.action) /\ last.target # NoElem
        /\ ~ui[last.target].stale /\ ui[last.target].actionsRaise = "ok"
        /\ ~InSeq(NativeOf(last.action), ui[last.target].actions)) =>
        /\ last.result =>
              /\ last.log # <<>>
              /\ last.log[Len(last.log)].elem \in Ancestors(last.target)
              /\ last.log[Len(last.log)].call = NativeOf(last.action)
              /\ last.log[Len(last.log)].outcome \in {"ok", "benign"}
        /\ ~last.result =>
              \A k \in 1..Len(last.log) :
                 ~(/\ last.log[k].elem \in Ancestors(last.target)
                   /\ last.log[k].call = NativeOf(last.action)
                   /\ last.log[k].outcome = "ok")

\* C8: for a press-family request, whatever is invoked on the resolved
\* element is the native action the request names, and the element supports
\* it.
C8_InvokesRequested ==
    (Performed /\ IsPressRequest(last.action)) =>
        \A k \in 1..Len(last.log) :
           last.log[k].elem = last.target =>
              /\ last.log[k].call = NativeOf(last.action)
              /\ Supports(last.target, last.log[k].call)

\* C9: a text-entry request without a value fails and sets nothing; with a
\* value, once the value has been set the result is success, whatever the
\* confirmation step does.
C9_TextEntry ==
    (PerformDone /\ Lower(last.action) \in TextActions /\ last.target # NoElem) =>
        /\ last.value = NoneStr => ~last.result /\ last.log = <<>>
        /\ (last.value # NoneStr /\ last.log # <<>>
               /\ last.log[1] = Call(last.target, "setString", "ok")) =>
              /\ ui[last.target].AXValue = last.value
              /\ last.result

\* C10: in a press-family call an invocation that raises the error -25205 is
\* the last one and the call returns success; a call whose last invocation
\* raised another error, or that invoked nothing, does not return success.
C10_BenignError ==
    (Performed /\ IsPressRequest(last.action)) =>
        /\ \A k \in 1..Len(last.log) :
              last.log[k].outcome = "benign" =>
                 k = Len(last.log) /\ last.pc = "done" /\ last.result
        /\ (last.pc = "done" /\ last.result) =>
              /\ last.log # <<>>
              /\ last.log[Len(last.log)].outcome \in {"ok", "benign"}

\* C10 witness: an invocation on an ancestor raised -25205 after an earlier
\* invocation had raised another error, and the call returned success.
C10_Witness ==
    /\ PerformDone
    /\ IsPressRequest(last.action)
    /\ last.result
    /\ Len(last.log) >= 2
    /\ last.log[1].outcome = "err"
    /\ last.log[Len(last.log)].outcome = "benign"
    /\ last.log[Len(last.log)].elem \in Ancestors(last.target)

(* ------------------------------------------------------------------ *)
(* main.py: the public operations and their tiers                       *)
(* ------------------------------------------------------------------ *)

\* What one osascript run can come to: return code 0 with the script's
\* "success" (for a read: the value), return code 0 with the script's
\* "error", another return code, the 10-second timeout, or subprocess.run
\* failing otherwise.
ScriptOutcomes == {"success", "error", "nonzero", "timeout", "oserror"}

\* run_applescript without its handler for subprocess.TimeoutExpired
run_applescriptTimeoutRaises(out) ==
    [raised |-> out = "timeout", success |-> out \in {"success", "error"}, output |-> out]

\* run_applescript(script) on a run that comes to out
run_applescript(out) ==
    [raised |-> FALSE, success |-> out \in {"success", "error"}, output |-> out]

\* one call a tier makes, as the trace of an operation records it
TierCall(tier, call, out, arg) == [tier |-> tier, call |-> call, out |-> out, arg |-> arg]

\* The scripting tier: applescript.press_element runs up to three scripts
\* (button, menu item, UI element), enter_text and read_value up to two; the
\* first run that reports success with a usable output ends the tier.  An
\* exception leaving run_applescript leaves the tier, and main catches it.
RECURSIVE ScriptTier(_, _, _, _)
ScriptTier(op, scr, k, log) ==
    LET n == IF op = "press_element" THEN 3 ELSE 2
        r == run_applescript(scr[k])
        log2 == Append(log, TierCall("script", "run_applescript", scr[k], r))
    IN IF k > n THEN [log |-> log, ok |-> FALSE]
       ELSE IF r.raised THEN [log |-> log2, ok |-> FALSE]
       ELSE IF r.success /\ r.output = "success" THEN [log |-> log2, ok |-> TRUE]
       ELSE ScriptTier(op, scr, k + 1, log2)

\* directions a caller sends to scroll
Directions ==
    {<<"u","p">>, <<"d","o","w","n">>, <<"l","e","f","t">>, <<"r","i","g","h","t">>,
     <<"U","p">>, <<"d","i","a","g">>}

\* The accessibility tier: ax.find_element, then the ax operation on the
\* element found; for scroll the one call ax.scroll_window, which scrolls
\* only for one of the four directions (in any letter case) and answers
\* False for any other.  None of these raises: each catches what its native
\* calls raise.
AxTier(op, env, dir, log) ==
    LET found == Append(log, TierCall("ax", "find_element", env.found, 0))
        scrolled == env.axOk /\ Lower(dir) \in {<<"u","p">>, <<"d","o","w","n">>,
                                                <<"l","e","f","t">>, <<"r","i","g","h","t">>}
    IN IF op = "scroll"
       THEN [log |-> Append(log, TierCall("ax", "scroll_window", scrolled, 0)),
             ok |-> scrolled]
       ELSE IF ~env.found THEN [log |-> found, ok |-> FALSE]
       ELSE [log |-> Append(found, TierCall("ax", op, env.axOk, 0)), ok |-> env.axOk]

\* The coordinate tier: find_element again, get_element_coords, then
\* fallback.click_at (and fallback.type_text for enter_text); for scroll,
\* fallback.scroll or fallback.hscroll of the signed amount.
CoordsTier(op, env, dir, amount, log) ==
    LET found == Append(log, TierCall("coords", "find_element", env.found2, 0))
        coords == Append(found, TierCall("coords", "get_element_coords", env.coords, 0))
        click == Append(coords, TierCall("coords", "click_at", env.click, 0))
        typed == Append(click, TierCall("coords", "type_text", env.typed, 0))
        signed == IF Lower(dir) \in {<<"u","p">>, <<"r","i","g","h","t">>}
                  THEN amount ELSE 0 - amount
        wheel == IF Lower(dir) \in {<<"u","p">>, <<"d","o","w","n">>}
                 THEN "scroll" ELSE "hscroll"
    IN IF op = "scroll"
       THEN [log |-> Append(log, TierCall("coords", wheel, env.click, signed)),
             ok |-> env.click]
       ELSE IF ~env.found2 THEN [log |-> found, ok |-> FALSE]
       ELSE IF ~env.coords THEN [log |-> coords, ok |-> FALSE]
       ELSE IF op = "press_element" \/ ~env.click THEN [log |-> click, ok |-> env.click]
       ELSE [log |-> typed, ok |-> env.typed]

\* TierOrder with the accessibility layer first in every operation
TierOrderAxFirst(op) ==
    IF op = "scroll" THEN <<"ax", "coords">>
    ELSE IF op = "read_value" THEN <<"ax", "script">>
    ELSE <<"ax", "script", "coords">>

\* the layers of each public operation, in the order the code tries them
TierOrder(op) ==
    IF op = "scroll" THEN <<"ax", "coords">>
    ELSE IF op = "read_value" THEN <<"script", "ax">>
    ELSE <<"script", "ax", "coords">>

\* RunTiers going through every layer, whatever the earlier ones reported
RECURSIVE RunTiersAll(_, _, _, _, _, _, _)
RunTiersAll(op, order, scr, env, dir, amount, log) ==
    IF order = <<>> THEN [log |-> log, ok |-> FALSE]
    ELSE LET t == IF Head(order) = "script" THEN ScriptTier(op, scr, 1, log)
                  ELSE IF Head(order) = "ax" THEN AxTier(op, env, dir, log)
                  ELSE CoordsTier(op, env, dir, amount, log)
             rest == RunTiersAll(op, Tail(order), scr, env, dir, amount, t.log)
         IN [log |-> rest.log, ok |-> t.ok \/ rest.ok]

\* The layers of an operation one after the other, up to the first that
\* succeeds.
RECURSIVE RunTiers(_, _, _, _, _, _, _)
RunTiers(op, order, scr, env, dir, amount, log) ==
    IF order = <<>> THEN [log |-> log, ok |-> FALSE]
    ELSE LET t == IF Head(order) = "script" THEN ScriptTier(op, scr, 1, log)
                  ELSE IF Head(order) = "ax" THEN AxTier(op, env, dir, log)
                  ELSE CoordsTier(op, env, dir, amount, log)
         IN IF t.ok THEN t
            ELSE RunTiers(op, Tail(order), scr, env, dir, amount, t.log)

\* What an operation does once every layer has failed: press_element
\* formats its last message with the name app, which is not defined
\* (NameError); read_value returns its error message; the others return
\* False.
Exhausted(op) ==
    IF op = "press_element" THEN [kind |-> "raise", val |-> "NameError"]
    ELSE IF op = "read_value" THEN [kind |-> "value", val |-> "Failed to read value"]
    ELSE [kind |-> "value", val |-> FALSE]

\* what the platform answers to the calls of one operation
Envs == [found : BOOLEAN, axOk : BOOLEAN, found2 : BOOLEAN, coords : BOOLEAN,
         click : BOOLEAN, typed : BOOLEAN]

\* a public operation that has returned (or raised)
PublicCall(op, scr, env, dir, amount) ==
    LET run == RunTiers(op, TierOrder(op), scr, env, dir, amount, <<>>)
    IN /\ last = Idle
       /\ last' = [op |-> op, dir |-> dir, log |-> run.log, ok |-> run.ok,
                   ret |-> IF ~run.ok THEN Exhausted(op)
                           ELSE IF op = "read_value"
                           THEN [kind |-> "value", val |-> "value"]
                           ELSE [kind |-> "value", val |-> TRUE]]
       /\ UNCHANGED <<ui, issued, shown>>

press_element ==
    \E scr \in [1..3 -> ScriptOutcomes], env \in Envs :
       PublicCall("press_element", scr, env, <<>>, 0)

enter_text ==
    \E scr \in [1..3 -> ScriptOutcomes], env \in Envs :
       PublicCall("enter_text", scr, env, <<>>, 0)

read_value ==
    \E scr \in [1..3 -> ScriptOutcomes], env \in Envs :
       PublicCall("read_value", scr, env, <<>>, 0)

scroll ==
    \E env \in Envs, dir \in Directions :
       PublicCall("scroll", <<>>, env, dir, 3)

\* main.list_elements -> ax.list_elements.  trusted is the accessibility
\* grant; without it every accessibility call fails, so no window is found.
\* check_ax_permissions is not called.
list_elements ==
    \E trusted \in BOOLEAN, app \in BOOLEAN, window \in BOOLEAN :
       LET win == trusted /\ window
           calls == <<TierCall("ax", "get_app_by_name", app, 0)>>
                    \o (IF app THEN <<TierCall("ax", "get_front_window", win, 0)>>
                        ELSE <<>>)
                    \o (IF app /\ win THEN <<TierCall("ax", "element_to_dict", TRUE, 0)>>
                        ELSE <<>>)
       IN /\ last = Idle
          /\ last' = [op |-> "list_elements", trusted |-> trusted, log |-> calls,
                      ok |-> app /\ win,
                      ret |-> [kind |-> "value",
                               val |-> IF ~app THEN "error: Application not found"
                                       ELSE IF ~win THEN "error: No window found"
                                       ELSE "tree"]]
          /\ UNCHANGED <<ui, issued, shown>>

\* The attribute each of the six search strategies of ax.find_element
\* compares with element_id (the last three also fix the role).
SearchStrategies ==
    <<"AXIdentifier", "AXTitle", "AXDescription", "AXTitle", "AXTitle", "AXTitle">>

\* The window a strategy searches while the loop over all windows is at win:
\* the lambdas were built over the variable window, the front window, and
\* the loop variable win is not used.
StrategyWindow(win) == "front"

\* ax.find_element(app_name, element_id).  home is the window that holds the
\* one element matching element_id ("none": no window does), attr the
\* attribute it matches by.
find_element ==
    \E app \in BOOLEAN, window \in BOOLEAN,
       home \in {"front", "other", "none"},
       attr \in {"AXIdentifier", "AXTitle", "AXDescription"} :
       LET hit(w, k) == home = w /\ SearchStrategies[k] = attr
           runs(w, pass) == [k \in 1..Len(SearchStrategies) |->
                               TierCall("ax", "findFirstR", hit(w, k), pass)]
           upTo(w, pass) ==
               LET calls == runs(w, pass)
                   hits == {k \in 1..Len(calls) : calls[k].out}
               IN IF hits = {} THEN calls
                  ELSE SubSeq(calls, 1, CHOOSE k \in hits : \A j \in hits : k <= j)
           found(calls) == calls # <<>> /\ calls[Len(calls)].out
           first == upTo("front", "front")
           second == upTo(StrategyWindow("front"), "front")
           third == upTo(StrategyWindow("other"), "other")
           log == IF ~app \/ ~window THEN <<>>
                  ELSE IF found(first) THEN first
                  ELSE IF found(second) THEN first \o second
                  ELSE first \o second \o third
           where == IF ~app \/ ~window THEN "None"
                    ELSE IF found(first) \/ found(second) THEN "front"
                    ELSE IF found(third) THEN StrategyWindow("other")
                    ELSE "None"
       IN /\ last = Idle
          /\ last' = [op |-> "find_element", home |-> home, attr |-> attr,
                      reachable |-> app /\ window, log |-> log,
                      ok |-> where # "None",
                      ret |-> [kind |-> "value", val |-> where]]
          /\ UNCHANGED <<ui, issued, shown>>

\* the public operations are called on a running application
InitPublic ==
    /\ ui = [e \in {Root} |-> KWindow]
    /\ issued = NoneNode
    /\ shown = ui
    /\ last = Idle

NextPublic ==
    \/ press_element \/ enter_text \/ read_value \/ scroll \/ list_elements
    \/ find_element \/ Return

SpecPublic == InitPublic /\ [][NextPublic]_vars

\* a public operation of the given names has returned or raised
Called(ops) == last.op \in ops

\* every layer of the operation was tried and failed
AllTiersFailed == Called({"press_element", "enter_text", "scroll"}) /\ ~last.ok

\* C11: when every layer of press_element, enter_text or scroll fails, the
\* operation returns False and raises nothing.
C11_AllFailReturnsFalse ==
    AllTiersFailed => (last.ret.kind = "value" /\ last.ret.val = FALSE)

\* C12: for every id, action, value and native failure,
\* perform_element_action ends by returning a boolean; no exception leaves
\* it.
C12_NeverRaises == PerformDone => (~last.raised /\ last.result \in BOOLEAN)

\* a call in which an exception reached the outer handler, and returned False
C12_Witness == PerformDone /\ last.exc /\ ~last.raised /\ last.result = FALSE

\* the four operations that act through layers
TieredOps == {"press_element", "enter_text", "read_value", "scroll"}

\* the call recorded in entry x of a trace reported failure
CallFailed(x) ==
    IF x.call = "run_applescript" THEN x.out # "success" ELSE x.out = FALSE

LayerRank(tier) == IF tier = "script" THEN 1 ELSE IF tier = "ax" THEN 2 ELSE 3

C14_PermissionFailFast ==
    (Called({"list_elements"}) /\ ~last.trusted) =>
       (last.ret.val = "error: permission" /\ last.log = <<>>)

(* ------------------------------------------------------------------ *)
(* simplify_role on its own                                             *)
(* ------------------------------------------------------------------ *)

\* raw roles handed to simplify_role: None, the empty string, native roles
RawRoles ==
    {NoneStr, <<>>} \cup {AXRoles[f] : f \in DOMAIN AXRoles}

\* action lists handed to simplify_role
ActionLists ==
    {<<>>,
     <<AXActions.Press>>,
     <<AXActions.ShowMenu, AXActions.Raise>>,
     <<AXActions.ScrollDownByPage>>,
     <<AXActions.Press, AXActions.ScrollUpByPage>>,
     <<<<"s","c","r","o","l","l","D","o","w","n">>>>,
     <<<<"S","C","R","O","L","L","U","P">>, AXActions.Confirm>>,
     <<<<"A","X","S","c","r","o","l","l","T","o","V","i","s","i","b","l","e">>>>}

\* the inputs of one call
InitClassify ==
    /\ ui = [e \in {Root} |-> KWindow]
    /\ issued = NoneNode
    /\ shown = ui
    /\ \E role \in RawRoles, actions \in ActionLists :
          last = [op |-> "simplify_role", pc |-> "call", ax_role |-> role,
                  actions |-> actions, ret |-> "pending"]

\* the call returns
Classify ==
    /\ last.op = "simplify_role"
    /\ last.pc = "call"
    /\ last' = [last EXCEPT !.pc = "done",
                            !.ret = simplify_role(last.ax_role, last.actions)]
    /\ UNCHANGED <<ui, issued, shown>>

NextClassify == Classify

SpecClassify == InitClassify /\ [][NextClassify]_vars

\* simplify_role has returned
Classified == last.op = "simplify_role" /\ last.pc = "done"

\* some action name begins with "scroll", in any letter case
HasScrollAction(actions) ==
    \E i \in 1..Len(actions) : StartsWith(Lower(actions[i]), kw.Scroll)

\* The seven rules, first match wins, the families being those of the
\* native roles: text field, text area and search field count as text
\* entry.
ReferenceRole(rawRole, actions) ==
    LET role == IF rawRole = NoneStr THEN <<>> ELSE Lower(rawRole)
        has(k) == Contains(role, k)
    IN IF role = <<>> THEN "element"
       ELSE IF has(kw.Button) \/ has(kw.Checkbox) \/ has(kw.Radio) \/ has(kw.Menu) \/ has(kw.Tab)
       THEN "button"
       ELSE IF has(kw.Textfield) \/ has(<<"t","e","x","t","a","r","e","a">>) \/ has(kw.Search)
       THEN "input"
       ELSE IF has(kw.Statictext) \/ has(kw.Label)
       THEN "text"
       ELSE IF HasScrollAction(actions)
       THEN "scrollable"
       ELSE IF has(kw.Window) \/ has(kw.Group) \/ has(kw.Split) \/ has(kw.Toolbar)
       THEN "container"
       ELSE "element"

\* C15: simplify_role always returns one of the six roles, and the one the
\* seven rules give with first match winning, for every raw role and list of
\* actions.
C15_SevenRules ==
    Classified =>
       /\ last.ret \in {"button", "input", "text", "scrollable", "container", "element"}
       /\ last.ret = ReferenceRole(last.ax_role, last.actions)

\* the call was made with no role and with scrollDown among the actions
AbsentRoleScrollDown ==
    /\ Classified
    /\ last.ax_role = NoneStr
    /\ InSeq(<<"s","c","r","o","l","l","D","o","w","n">>, last.actions)

\* C16 (as stated): simplify_role of an absent role and an action set holding
\* scrollDown is scrollable.
C16_AbsentRoleScrollable == AbsentRoleScrollDown => last.ret = "scrollable"

\* C16 (amended): simplify_role of an absent role and an action set holding
\* scrollDown is element: the test for an absent role comes first.
C16_AbsentRoleElement == AbsentRoleScrollDown => last.ret = "element"

C16_Witness == AbsentRoleScrollDown /\ last.ret = "element"

\* C17: the native roles of the text-entry family, AXTextField, AXTextArea
\* and AXSearchField, are classified input whatever the actions.
C17_TextEntryIsInput ==
    (Classified /\ last.ax_role \in {AXRoles.TextField, AXRoles.TextArea, AXRoles.SearchField})
       => last.ret = "input"

\* a group with no name of its own whose two children are a button "OK"
\* (supports Press) and a static text "Status", both leaves, in either order
LabelledControl ==
    /\ ui[Root] = [KGroup EXCEPT !.AXChildren = <<2, 3>>]
    /\ {ui[2], ui[3]} = {[KButton EXCEPT !.AXParent = Root],
                         [KText EXCEPT !.AXParent = Root]}

\* C18: the listing of an unnamed container with one actionable child and
\* one text child, whichever comes first, has the text's name as the
\* container's name and no text child among its children.
C18_AbsorbedEitherOrder ==
    (Unchanged /\ LabelledControl) =>
        /\ issued.name = Texts.Status
        /\ \A i \in 1..Len(issued.children) : issued.children[i].role # "text"

\* entry i of the trace is an osascript run that hit the 10-second timeout
TimedOut(i) ==
    last.log[i].call = "run_applescript" /\ last.log[i].out = "timeout"

CycleKinds == {KGroup, KText, KField, KStale}

\* A window with two children under the root.  AXChildren is as in a proper
\* window; AXParent of each child answers the root or the other child, so
\* the two may name each other as parent.
CycleWindows ==
    {[Window(<<NoElem, Root, Root>>, <<top, k2, k3>>)
         EXCEPT ![2].AXParent = p2, ![3].AXParent = p3] :
        top \in RootKinds, k2 \in CycleKinds, k3 \in CycleKinds,
        p2 \in {Root, 3}, p3 \in {Root, 2}}

InitCycle ==
    /\ ui \in CycleWindows
    /\ issued = NoneNode
    /\ shown = ui
    /\ last = Idle

NextCycle == ListCall \/ ListStep \/ Perform \/ ClimbStep \/ Return

\* perform_element_action is one call: once in the loop over the parents it
\* keeps running.
SpecCycle == InitCycle /\ [][NextCycle]_vars /\ WF_vars(ClimbStep)

\* the call is in its loop over the parents
Climbing == Performed /\ last.pc = "climb"

\* C20: the climb over the parents ends for every parent relation, also one
\* in which the ancestors form a cycle and none supports a press-family
\* action.
C20_ClimbTerminates == Climbing ~> PerformDone

\* C21: find_element_by_id returns an element or None and never raises, also
\* for an id that is no well-formed index path.
C21_ResolveNeverRaises == Resolved => last.ret.kind = "value"

\* C22: a listed element whose getActions() fails has no actions of its own
\* and the role its readable AXRole classifies to (an AXButton is listed as
\* button).  Stated for nodes without listed children, whose role and
\* actions no child has changed.
C22_RoleSurvivesActionFailure ==
    Unchanged =>
       \A N \in NodesOf(issued) :
          (~ui[N.elem].stale /\ ui[N.elem].actionsRaise # "ok" /\ N.children = <<>>) =>
             /\ N.actions = <<>>
             /\ N.role = simplify_role(ui[N.elem].AXRole, <<>>)

\* the role serialize gives e before it looks at e's children
OwnRole(e) == simplify_role(RoleAndActions(e).role, RoleAndActions(e).actions)

\* C23: in every listing, a node with at least one serialized child whose
\* final actions hold press, open, showmenu or showdefaultui has neither role
\* container nor role element: such a role has become button; a node
\* classified button, input, text or scrollable keeps its role.
C23_RolePromotion ==
    Unchanged =>
       \A N \in NodesOf(issued) :
          /\ (valid_children(N.elem) # <<>> /\ Actionable(N.actions)) =>
                N.role = (IF OwnRole(N.elem) \in {"container", "element"}
                          THEN "button" ELSE OwnRole(N.elem))
          /\ OwnRole(N.elem) \in {"button", "input", "text", "scrollable"} =>
                N.role = OwnRole(N.elem)
          /\ N.role \in {"button", OwnRole(N.elem)}

\* a listing with a promoted node, and nodes of role text, input or
\* scrollable that have a child with a press action and kept their role
C23_Witness ==
    /\ Unchanged
    /\ ListFinished
    /\ \E N \in NodesOf(issued) :
          /\ N.children # <<>>
          /\ InSeq(kw.Press, N.actions)
          /\ \/ OwnRole(N.elem) = "container" /\ N.role = "button"
             \/ N.role \in {"text", "input", "scrollable"}

\* e and the elements below it that serialize visits: those reached through
\* retained children
RECURSIVE Visited(_)
Visited(e) ==
    {e} \cup UNION {Visited(valid_children(e)[i]) : i \in 1..Len(valid_children(e))}

\* C24: in every listing the actions of a node hold every action of every
\* element serialized below it, also of text children that were absorbed
\* into a name and left out of children.
C24_ActionRollUp ==
    Unchanged =>
       \A N \in NodesOf(issued) :
          \A d \in Visited(N.elem) :
             \A i \in 1..Len(RoleAndActions(d).actions) :
                InSeq(Lower(RoleAndActions(d).actions[i]), N.actions)

\* a group whose only child, a text with a button below it, was absorbed:
\* the group has no children in the listing and holds the button's press
C24_Witness ==
    /\ Unchanged
    /\ ListFinished
    /\ ui[Root] = [KGroup EXCEPT !.AXChildren = <<2>>]
    /\ ui[2] = [KText EXCEPT !.AXParent = Root, !.AXChildren = <<3>>]
    /\ ui[3] = [KButton EXCEPT !.AXParent = 2]
    /\ issued.children = <<>>
    /\ issued.name = Texts.Status
    /\ issued.actions = <<kw.Press>>

(* ------------------------------------------------------------------ *)
(* perform_element_action on windows with scroll areas                  *)
(* ------------------------------------------------------------------ *)

\* scroll requests a caller sends, in the letter case it likes
ScrollRequests ==
    {<<"s","c","r","o","l","l","u","p">>,
     <<"s","c","r","o","l","l","d","o","w","n">>,
     <<"s","c","r","o","l","l","l","e","f","t">>,
     <<"S","c","r","o","l","l","R","i","g","h","t">>}

\* a scroll request; the one native call succeeds, raises -25205, or raises
\* another error
PerformScroll ==
    \E id \in CallerIds, action \in ScrollRequests :
       \E sched \in {s \in Schedules : s.errs = 0} :
          PerformCall(id, action, NoneStr, sched, 0)

InitScroll ==
    /\ ui \in {w \in ShallowWindows({KScroll, KGroup}) : SparesPlain(w, KGroup)}
    /\ issued = NoneNode
    /\ shown = ui
    /\ last = Idle

NextScroll == PerformScroll \/ Perform \/ ClimbStep \/ Return

SpecScroll == InitScroll /\ [][NextScroll]_vars

\* the call at hand is a directional scroll request
IsScrollRequest == Performed /\ IsScrollAction(Lower(last.action))

\* the native paging action of a direction
PagingOf(action) ==
    IF action = <<"s","c","r","o","l","l","u","p">> THEN AXActions.ScrollUpByPage
    ELSE IF action = <<"s","c","r","o","l","l","d","o","w","n">> THEN AXActions.ScrollDownByPage
    ELSE IF action = <<"s","c","r","o","l","l","l","e","f","t">> THEN AXActions.ScrollLeftByPage
    ELSE AXActions.ScrollRightByPage

\* C25: a directional scroll request makes one attempt, on the resolved
\* element, to invoke the paging action of its direction: an element that
\* offers the action has it invoked exactly once, nothing else is invoked on
\* it or on any ancestor (the call never enters the climb), and the result is
\* True exactly when that invocation did not raise.
C25_ScrollOnce ==
    IsScrollRequest =>
       /\ last.pc = "done"
       /\ IF last.target # NoElem /\ Supports(last.target, PagingOf(Lower(last.action)))
          THEN /\ Len(last.log) = 1
               /\ last.log[1].elem = last.target
               /\ last.log[1].call = PagingOf(Lower(last.action))
               /\ last.result = (last.log[1].outcome = "ok")
          ELSE last.log = <<>> /\ ~last.result

\* scrollright, sent as "ScrollRight", on a scroll area below the root, whose
\* one invocation raised
C25_Witness ==
    /\ IsScrollRequest
    /\ last.action = <<"S","c","r","o","l","l","R","i","g","h","t">>
    /\ last.target # NoElem /\ last.target # Root
    /\ Len(last.log) = 1
    /\ last.log[1].outcome = "benign"
    /\ ~last.result

\* C26: when the element matching element_id is in a window other than the
\* front one, find_element finds it there and returns it.
C26_FindsInOtherWindows ==
    (Called({"find_element"}) /\ last.reachable /\ last.home = "other") =>
       last.ret.val = "other"

(* ------------------------------------------------------------------ *)
(* serializewindowstructure.py: get_window_structure                     *)
(* ------------------------------------------------------------------ *)

\* node_id of the full serializer: the stripped AXIdentifier when it is a
\* non-blank string, else Role[i]@path with AXUnknown for a role that cannot
\* be read
FullId(role, ax_identifier, path) ==
    IF IsText(ax_identifier) THEN Strip(ax_identifier)
    ELSE (IF role = NoneStr \/ role = <<>> THEN <<"A","X","U","n","k","n","o","w","n">>
          ELSE role)
         \o <<"[">> \o IntToStr(path[Len(path)]) \o <<"]", "@">> \o PathId(path)

\* serialize(elem, path) of get_window_structure: every attribute is read
\* through _safe_getattr (None on failure), every child is serialized.  Of
\* the node's fields those are kept that an operation reads back; elem is
\* bookkeeping, the handle the node was built from.
RECURSIVE FullNode(_, _)
FullNode(e, path) ==
    LET el == ui[e]
        kids == IF el.stale THEN <<>> ELSE el.AXChildren
    IN [id |-> FullId(IF el.stale THEN NoneStr ELSE el.AXRole,
                      IF el.stale THEN NoneStr ELSE el.AXIdentifier, path),
        path |-> PathId(path),
        role |-> IF el.stale THEN NoneStr ELSE el.AXRole,
        actions |-> IF el.stale \/ el.actionsRaise # "ok" THEN <<>> ELSE el.actions,
        children |-> [i \in 1..Len(kids) |-> FullNode(kids[i], Append(path, i - 1))],
        elem |-> e]

\* get_window_structure(window), one synchronous call
StructureCall ==
    /\ last = Idle
    /\ issued' = FullNode(Root, <<0>>)
    /\ shown' = ui
    /\ last' = [op |-> "structure", pc |-> "done"]
    /\ UNCHANGED ui

\* Windows whose elements may carry an AXIdentifier: "ok", shaped like an
\* identifier, or "a-b", which is not.
InitFull ==
    /\ ui \in {w \in ShallowWindows({KButton, KStale,
                                     [KButton EXCEPT !.AXIdentifier = <<"o","k">>],
                                     [KText EXCEPT !.AXIdentifier = <<"o","k">>],
                                     [KButton EXCEPT !.AXIdentifier = <<"a","-","b">>]}) :
                 SparesPlain(w, KButton)}
    /\ issued = NoneNode
    /\ shown = ui
    /\ last = Idle

NextFull == StructureCall \/ Resolve \/ Return

SpecFull == InitFull /\ [][NextFull]_vars

\* C27: on the unchanged tree, find_element_by_id applied to the id of any
\* node of get_window_structure's output returns the element that node was
\* made from, whether the id is an AXIdentifier or of the form Role[i]@path.
C27_FullIdsResolve ==
    (Unchanged /\ Resolved) =>
       \A N \in NodesOf(issued) : N.id = last.id => last.ret = Returned(N.elem)

\* entry i of the trace is the call by which its layer reported success: a
\* script run that answered "success", the accessibility operation on the
\* element found, or the last input event of the coordinate layer
LayerSucceededAt(i) ==
    LET x == last.log[i]
    IN IF x.call = "run_applescript" THEN x.out = "success"
       ELSE /\ x.out = TRUE
            /\ x.call \in (IF last.op = "press_element" THEN {"press_element", "click_at"}
                           ELSE IF last.op = "enter_text" THEN {"enter_text", "type_text"}
                           ELSE {"scroll_window", "scroll", "hscroll"})

\* C28: in press_element, enter_text and scroll the layers are attempted in
\* their fixed order, nothing is invoked after a layer has reported success,
\* and the operation returns True exactly when some layer reported success.
C28_FirstSuccessEnds ==
    Called({"press_element", "enter_text", "scroll"}) =>
       /\ \A i \in 1..(Len(last.log) - 1) :
             /\ LayerRank(last.log[i].tier) <= LayerRank(last.log[i + 1].tier)
             /\ ~LayerSucceededAt(i)
       /\ (last.ret.kind = "value" /\ last.ret.val = TRUE)
             <=> (last.log # <<>> /\ LayerSucceededAt(Len(last.log)))

\* press_element whose three scripts answered "error" and whose accessibility
\* layer then pressed the element: the coordinate layer was not invoked
C28_Witness ==
    /\ Called({"press_element"})
    /\ Len(last.log) = 5
    /\ \A i \in 1..3 : last.log[i].out = "error"
    /\ last.log[5].call = "press_element" /\ last.log[5].out = TRUE
    /\ last.ret.kind = "value" /\ last.ret.val = TRUE

(* ------------------------------------------------------------------ *)
(* Listings of windows with three children                              *)
(* ------------------------------------------------------------------ *)

\* a window or group with three leaves below it
InitGaps ==
    /\ ui \in {Window(<<NoElem, Root, Root, Root>>, <<top, k[1], k[2], k[3]>>) :
                 top \in RootKinds,
                 k \in [1..3 -> {KButton, KText, KGroup, KStale}]}
    /\ issued = NoneNode
    /\ shown = ui
    /\ last = Idle

NextGaps == ListCall \/ ListStep \/ Return

SpecGaps == InitGaps /\ [][NextGaps]_vars

\* the children of e whose role can be read, in order
Retained(e) ==
    IF ui[e].stale THEN <<>> ELSE SelectSeq(ui[e].AXChildren, LAMBDA c : ~ui[c].stale)

\* the last component of an id
LastIndex(id) == ParseIndices(id).indices[Len(ParseIndices(id).indices)]

\* C29: in every listing the last component of a node's id is the position
\* of its element among the parent's children whose role can be read;
\* absorbing a sibling does not renumber the siblings after it.
C29_IdsKeepPositions ==
    Unchanged =>
       \A N \in NodesOf(issued) :
          \A k \in 1..Len(N.children) :
             /\ ParseIndices(N.children[k].id).ok
             /\ \E j \in 1..Len(Retained(N.elem)) :
                   /\ Retained(N.elem)[j] = N.children[k].elem
                   /\ LastIndex(N.children[k].id) = j - 1

\* a listing with a gap: the second of three children, a text, was absorbed,
\* and the children listed are 0/0 and 0/2
C29_Witness ==
    /\ Unchanged
    /\ ListFinished
    /\ ~ui[3].stale
    /\ Len(issued.children) = 2
    /\ issued.children[1].id = <<"0","/","0">>
    /\ issued.children[2].id = <<"0","/","2">>

\* the four directions of scroll
FourDirections ==
    {<<"u","p">>, <<"d","o","w","n">>, <<"l","e","f","t">>, <<"r","i","g","h","t">>}

\* C30: scroll only scrolls in the direction asked for: for up, down, left
\* and right the coordinate layer turns the wheel of the matching axis with
\* the matching sign, and for any other direction string no layer issues a
\* scroll and the operation returns False.
C30_ScrollsAsAsked ==
    Called({"scroll"}) =>
       IF Lower(last.dir) \in FourDirections
       THEN \A i \in 1..Len(last.log) :
               last.log[i].tier = "coords" =>
                  /\ last.log[i].call =
                        (IF Lower(last.dir) \in {<<"u","p">>, <<"d","o","w","n">>}
                         THEN "scroll" ELSE "hscroll")
                  /\ IF Lower(last.dir) \in {<<"u","p">>, <<"r","i","g","h","t">>}
                     THEN last.log[i].arg > 0 ELSE last.log[i].arg < 0
       ELSE /\ \A i \in 1..Len(last.log) : last.log[i].call \notin {"scroll", "hscroll"}
            /\ last.ret.val = FALSE

====
